---- MODULE Spec2Model ----
(***************************************************************************)
(* Model of the satellite image brightness normaliser                      *)
(* (normalizer.py, app.py, main.py, test_normalizer.py).                   *)
(*                                                                         *)
(* Real numbers (means, targets, factors) are exact rationals [n, d] with  *)
(* d > 0; d = 0 is Python's None.  A pixel buffer is a sequence of NPix    *)
(* samples standing for the 256x256 grid the decoder produces.             *)
(***************************************************************************)
EXTENDS Integers, Sequences, FiniteSets, TLC

\* ---------------------------------------------------------------- bounds
NPix == 2
MaxEntries == 2
PixelValues == {0, 7, 13, 255}
\* explicit targets a caller can type, as rationals
ValidTargets == { [n |-> 0, d |-> 1], [n |-> 1, d |-> 2], [n |-> 15, d |-> 2],
                  [n |-> 9, d |-> 1], [n |-> 200, d |-> 1],
                  [n |-> 255, d |-> 1] }
InvalidTargets == { [n |-> 0 - 5, d |-> 1], [n |-> 300, d |-> 1] }
\* what casting a NaN sample to uint8 may give (undefined in C; one build
\* gives every NaN sample of an array the same value)
NaNCast == {0, 255}

\* ------------------------------------------------------------- rationals
None == [n |-> 0, d |-> 0]
One == [n |-> 1, d |-> 1]
IsNone(x) == x.d = 0
Abs(x) == IF x < 0 THEN 0 - x ELSE x
RatEq(a, b) == a.n * b.d = b.n * a.d
RatLe(a, b) == a.n * b.d <= b.n * a.d
\* abs(a - b) > 1.0
DiffGt1(a, b) == Abs(a.n * b.d - b.n * a.d) > a.d * b.d
\* a / b, for b > 0
RatDiv(a, b) == [n |-> a.n * b.d, d |-> a.d * b.n]
\* a - b
RatSub(a, b) == [n |-> a.n * b.d - b.n * a.d, d |-> a.d * b.d]
\* abs(a - b)
RatAbsDiff(a, b) == [n |-> Abs(a.n * b.d - b.n * a.d), d |-> a.d * b.d]
InRange(t) == 0 <= t.n /\ t.n <= 255 * t.d

\* --------------------------------------------------------------- buffers
RECURSIVE SumSeq(_)
SumSeq(s) == IF s = <<>> THEN 0 ELSE Head(s) + SumSeq(Tail(s))

\* np.mean(buffer)
Mean(buf) == [n |-> SumSeq(buf), d |-> Len(buf)]

\* np.clip(x, 0, 255).astype(np.uint8) of the real num/den, den > 0
ClipCastNoUpper(num, den) ==
    IF num <= 0 \/ den = 0 THEN 0 ELSE num \div den
ClipCast(num, den) ==
    IF num <= 0 THEN 0
    ELSE IF num >= 255 * den THEN 255
    ELSE num \div den

\* np.clip(buf * f, 0, 255).astype(np.uint8)
ScaleBuffer(buf, f) == [k \in 1..Len(buf) |-> ClipCast(buf[k] * f.n, f.d)]

\* np.clip(buf + adj, 0, 255).astype(np.uint8)
ShiftBuffer(buf, adj) ==
    [k \in 1..Len(buf) |-> ClipCast(buf[k] * adj.d + adj.n, adj.d)]

Buffers == [1..NPix -> PixelValues]
NonPng == [png |-> FALSE, buf |-> <<>>]
Entries == {[png |-> TRUE, buf |-> b] : b \in Buffers} \cup {NonPng}
Archives == UNION {[1..k -> Entries] : k \in 0..MaxEntries}

\* ----------------------------------------------------------------- state
VARIABLES
    archive,            \* the ZIP file: its entries in namelist order
    entry,              \* which front end constructed the normaliser
    pc,                 \* position in process_all
    target_intensity,   \* self.target_intensity
    images,             \* self.images: (name, img) pairs
    image_arrays,       \* self.image_arrays
    global_avg,         \* self.global_avg
    i,                  \* loop index of the running loop
    normalized,         \* the buffer being corrected
    normalized_images,  \* corrected images built by normalize_images
    hist,               \* per image: stages run and the values they computed
    saved_paths,        \* paths returned by save_normalized_images
    disk,               \* output_dir: file number -> content
    result,             \* what process_all returned
    reports             \* what earlier calls on this instance returned

vars == <<archive, entry, pc, target_intensity, images, image_arrays,
          global_avg, i, normalized, normalized_images, hist, saved_paths,
          disk, result, reports>>

NoStats == [global_average |-> None, image_count |-> 0,
            normalized_images |-> <<>>, images_within_threshold |-> 0,
            score |-> None]
NoResult == [returned |-> FALSE, success |-> FALSE, kind |-> "none",
             error |-> "", stats |-> NoStats, saved_paths |-> <<>>]

Init ==
    /\ archive \in Archives
    /\ entry = "none"
    /\ pc = "idle"
    /\ target_intensity = None
    /\ images = <<>>
    /\ image_arrays = <<>>
    /\ global_avg = None
    /\ i = 0
    /\ normalized = <<>>
    /\ normalized_images = <<>>
    /\ hist = <<>>
    /\ saved_paths = <<>>
    /\ disk = <<>>
    /\ result = NoResult
    /\ reports = <<>>

\* ------------------------------------------------------------ front ends
\* SatelliteImageNormalizer.__init__ followed by the call of process_all
Construct(e, t) ==
    /\ entry' = e
    /\ target_intensity' = t
    /\ images' = <<>>
    /\ image_arrays' = <<>>
    /\ global_avg' = None
    /\ pc' = "extract"
    /\ UNCHANGED <<reports, archive, i, normalized, normalized_images, hist,
                   saved_paths, disk, result>>

Rejected(e, where) ==
    /\ entry' = e
    /\ pc' = where
    /\ UNCHANGED <<reports, archive, target_intensity, images, image_arrays,
                   global_avg, i, normalized, normalized_images, hist,
                   saved_paths, disk, result>>

\* app.upload_file: the form field is empty (None) or a number
upload_file ==
    /\ pc = "idle"
    /\ \E raw \in ValidTargets \cup InvalidTargets \cup {None},
          allowed \in BOOLEAN :
         IF ~IsNone(raw) /\ (raw.n < 0 \/ raw.n > 255 * raw.d)
         THEN Rejected("web", "redirected")
         ELSE IF allowed
              THEN Construct("web", raw)
              ELSE Rejected("web", "redirected")

\* main.main without --web: --target is optional and taken as parsed
main ==
    /\ pc = "idle"
    /\ \E raw \in ValidTargets \cup InvalidTargets \cup {None},
          exists \in BOOLEAN :
         IF ~exists
         THEN Rejected("cli", "exit1")
         ELSE Construct("cli", raw)

\* test_normalizer.verify_normalized_images: direct construction
verify_normalized_images ==
    /\ pc = "idle"
    /\ \E raw \in ValidTargets \cup InvalidTargets \cup {None} :
         Construct("direct", raw)

\* ------------------------------------------------------------ process_all
\* the except clause of process_all
FailPartial(msg) ==
    /\ pc' = "failed"
    /\ result' = [returned |-> TRUE, success |-> FALSE, kind |-> "str",
                  error |-> msg, stats |-> NoStats,
                  saved_paths |-> saved_paths]
Fail(msg) ==
    /\ pc' = "failed"
    /\ result' = [returned |-> TRUE, success |-> FALSE, kind |-> "str",
                  error |-> msg, stats |-> NoStats, saved_paths |-> <<>>]

\* the PNG entries of the archive, in namelist order, as (name, img)
RECURSIVE PngEntries(_, _)
PngEntries(a, k) ==
    IF k > Len(a) THEN <<>>
    ELSE IF a[k].png
         THEN <<[name |-> k, img |-> a[k].buf]>> \o PngEntries(a, k + 1)
         ELSE PngEntries(a, k + 1)

\* "if not image_files": the archive holds no PNG entry
NoImagesFoundNever(image_files) == FALSE
NoImagesFound(image_files) == image_files = <<>>

extract_images ==
    /\ pc = "extract"
    /\ LET image_files == PngEntries(archive, 1) IN
         IF NoImagesFound(image_files)
         THEN /\ Fail("Error processing ZIP file: No PNG images found in the ZIP file")
              /\ UNCHANGED images
         ELSE /\ images' = images \o image_files
              /\ pc' = "load"
              /\ UNCHANGED result
    /\ UNCHANGED <<reports, archive, entry, target_intensity, image_arrays, global_avg,
                   i, normalized, normalized_images, hist, saved_paths, disk>>

\* the archive is corrupt or an entry does not decode: the entries read
\* before the fault stay in self.images
extract_images_error ==
    /\ pc = "extract"
    /\ LET image_files == PngEntries(archive, 1) IN
         \E k \in 0..Len(image_files) :
            /\ k < Len(image_files) \/ k = 0
            /\ images' = images \o SubSeq(image_files, 1, k)
    /\ Fail("Error extracting images")
    /\ UNCHANGED <<reports, archive, entry, target_intensity, image_arrays, global_avg,
                   i, normalized, normalized_images, hist, saved_paths, disk>>

load_images ==
    /\ pc = "load"
    /\ image_arrays' = [k \in 1..Len(images) |-> images[k].img]
    /\ pc' = "average"
    /\ UNCHANGED <<reports, archive, entry, target_intensity, images, global_avg, i,
                   normalized, normalized_images, hist, saved_paths, disk,
                   result>>

\* np.concatenate of the flattened arrays
RECURSIVE Concatenate(_)
Concatenate(arrays) ==
    IF arrays = <<>> THEN <<>>
    ELSE Head(arrays) \o Concatenate(Tail(arrays))

GlobalAverage(arrays) == Mean(Concatenate(arrays))

calculate_global_average ==
    /\ pc = "average"
    /\ IF image_arrays = <<>>
       THEN /\ Fail("No images loaded. Call load_images() first.")
            /\ UNCHANGED global_avg
       ELSE /\ global_avg' = GlobalAverage(image_arrays)
            /\ pc' = "normalize"
            /\ UNCHANGED result
    /\ UNCHANGED <<reports, archive, entry, target_intensity, images, image_arrays, i,
                   normalized, normalized_images, hist, saved_paths, disk>>

\* target = self.target_intensity if it is not None else self.global_avg
EffectiveTargetIgnored == global_avg
EffectiveTarget ==
    IF ~IsNone(target_intensity) THEN target_intensity ELSE global_avg

\* ------------------------------------------------------- normalize_images
\* entry of normalize_images up to the head of its loop
normalize_images ==
    /\ pc = "normalize"
    /\ global_avg' = IF IsNone(global_avg) THEN GlobalAverage(image_arrays)
                     ELSE global_avg
    /\ normalized_images' = <<>>
    /\ normalized' = <<>>
    /\ i' = 1
    /\ pc' = IF image_arrays = <<>> THEN "save" ELSE "scale"
    /\ UNCHANGED <<reports, archive, entry, target_intensity, images, image_arrays,
                   hist, saved_paths, disk, result>>

\* normalized_images.append(...) and the step of the for loop
AppendAndAdvanceFront(buf) ==
    /\ normalized_images' = <<buf>> \o normalized_images
    /\ i' = IF i = Len(image_arrays) THEN 1 ELSE i + 1
    /\ pc' = IF i = Len(image_arrays) THEN "save" ELSE "scale"
AppendAndAdvance(buf) ==
    /\ normalized_images' = Append(normalized_images, buf)
    /\ i' = IF i = Len(image_arrays) THEN 1 ELSE i + 1
    /\ pc' = IF i = Len(image_arrays) THEN "save" ELSE "scale"

\* the stage-1 factor: target / current_avg, or 1.0 for a zero mean
ScalingFactorUnguarded(target, current_avg) == RatDiv(target, current_avg)
ScalingFactorInverted(target, current_avg) ==
    IF current_avg.n > 0 THEN RatDiv(current_avg, target) ELSE One
ScalingFactor(target, current_avg) ==
    IF current_avg.n > 0 THEN RatDiv(target, current_avg) ELSE One

\* "if abs(new_avg - target) > 1.0" after stage 1
NeedsAdjust(new_avg, target) == DiffGt1(new_avg, target)

\* "if abs(final_avg - target) > 1.0" after the additive stage
NeedsSecondaryAlways(final_avg, target) == TRUE
NeedsSecondary(final_avg, target) == DiffGt1(final_avg, target)

\* stage 1: linear scale, clip, cast, then the threshold test
linear_scale ==
    /\ pc = "scale"
    /\ LET target == EffectiveTarget
           img_array == image_arrays[i]
           current_avg == Mean(img_array)
           scaling_factor == ScalingFactor(target, current_avg)
           out == ScaleBuffer(img_array, scaling_factor)
           new_avg == Mean(out)
       IN /\ normalized' = out
          /\ hist' = Append(hist,
                 [stages |-> <<"scale">>, target |-> target,
                  current_avg |-> current_avg,
                  scaling_factor |-> scaling_factor, new_avg |-> new_avg,
                  final_avg |-> None, sec_factor |-> None,
                  div0 |-> (scaling_factor.d = 0)])
          /\ IF NeedsAdjust(new_avg, target)
             THEN /\ pc' = "adjust"
                  /\ UNCHANGED <<i, normalized_images>>
             ELSE AppendAndAdvance(out)
    /\ UNCHANGED <<reports, archive, entry, target_intensity, images, image_arrays,
                   global_avg, saved_paths, disk, result>>

\* hist with its last record (the image in progress) changed
Note(stage, field, val) ==
    [hist EXCEPT ![Len(hist)] =
        [@ EXCEPT !.stages = Append(@, stage), ![field] = val]]

\* the buffer after the additive stage
FineAdjust(buf, target) == ShiftBuffer(buf, RatSub(target, Mean(buf)))

\* stage 2: additive adjustment, clip, cast, then the threshold test
fine_adjustment ==
    /\ pc = "adjust"
    /\ LET target == EffectiveTarget
           out == FineAdjust(normalized, target)
           final_avg == Mean(out)
       IN /\ normalized' = out
          /\ hist' = Note("adjust", "final_avg", final_avg)
          /\ IF NeedsSecondary(final_avg, target)
             THEN /\ pc' = "secondary"
                  /\ UNCHANGED <<i, normalized_images>>
             ELSE AppendAndAdvance(out)
    /\ UNCHANGED <<reports, archive, entry, target_intensity, images, image_arrays,
                   global_avg, saved_paths, disk, result>>

\* stage 3: sec_factor = target / final_avg with no test of final_avg; a
\* zero final_avg gives an infinite factor, NaN samples and an undefined cast
secondary_adjustment ==
    /\ pc = "secondary"
    /\ LET target == EffectiveTarget
           final_avg == Mean(normalized)
           sec_factor == RatDiv(target, final_avg)
       IN \E out \in IF final_avg.n = 0
                     THEN {[k \in 1..Len(normalized) |-> v] : v \in NaNCast}
                     ELSE {ScaleBuffer(normalized, sec_factor)} :
            /\ normalized' = out
            /\ hist' = [Note("secondary", "sec_factor", sec_factor)
                          EXCEPT ![Len(hist)].div0 = @ \/ (final_avg.n = 0)]
            /\ AppendAndAdvance(out)
    /\ UNCHANGED <<reports, archive, entry, target_intensity, images, image_arrays,
                   global_avg, saved_paths, disk, result>>

\* the body of the loop of normalize_images as a function of one image, for
\* the images whose secondary stage does not divide by zero
Corrected(img_array, target) ==
    LET stage1 == ScaleBuffer(img_array,
                              ScalingFactor(target, Mean(img_array)))
        stage2 == FineAdjust(stage1, target)
    IN IF ~NeedsAdjust(Mean(stage1), target) THEN stage1
       ELSE IF ~NeedsSecondary(Mean(stage2), target) THEN stage2
       ELSE ScaleBuffer(stage2, RatDiv(target, Mean(stage2)))

\* ------------------------------------------------- save_normalized_images
\* one turn of the loop of save_normalized_images, or its return
save_normalized_images ==
    /\ pc = "save"
    /\ IF i > Len(normalized_images)
       THEN /\ pc' = "report"
            /\ UNCHANGED <<i, saved_paths, disk>>
       ELSE /\ disk' = (i :> normalized_images[i]) @@ disk
            /\ saved_paths' = Append(saved_paths, i)
            /\ i' = i + 1
            /\ pc' = "save"
    /\ UNCHANGED <<reports, archive, entry, target_intensity, images, image_arrays,
                   global_avg, normalized, normalized_images, hist, result>>

\* img.save raises (the output directory is not writable, the disk is full)
save_error ==
    /\ pc = "save"
    /\ i <= Len(normalized_images)
    /\ Fail("Error saving image")
    /\ UNCHANGED <<reports, archive, entry, target_intensity, images, image_arrays,
                   global_avg, i, normalized, normalized_images, hist,
                   saved_paths, disk>>

\* --------------------------------------------------- statistics and score
\* "within_threshold = difference <= 1.0"
WithinThresholdStrict(difference) ==
    difference.n < difference.d
WithinThreshold(difference) == RatLe(difference, One)

\* one entry of stats["normalized_images"]
ImageStats(k, img, target) ==
    LET avg_intensity == Mean(img)
        difference == RatAbsDiff(avg_intensity, target)
    IN [filename |-> k,
        average_intensity |-> avg_intensity,
        difference_from_target |-> difference,
        within_threshold |-> WithinThreshold(difference)]

\* the counter the loop keeps: entries 1..k that are within the threshold
RECURSIVE CountWithin(_, _)
CountWithin(entries, k) ==
    IF k = 0 THEN 0
    ELSE CountWithin(entries, k - 1)
         + (IF entries[k].within_threshold THEN 1 ELSE 0)

\* (images_within_threshold / len(normalized_images)) * 10, or 0
ScoreIntDiv(within, count) ==
    IF count > 0 THEN [n |-> (within \div count) * 10, d |-> 1]
    ELSE [n |-> 0, d |-> 1]
Score(within, count) ==
    IF count > 0 THEN [n |-> within * 10, d |-> count] ELSE [n |-> 0, d |-> 1]

\* the statistics process_all assembles (processing_time is left out: it is
\* wall-clock time and no other field depends on it)
BuildStats ==
    LET target == EffectiveTarget
        entries == [k \in 1..Len(normalized_images) |->
                       ImageStats(k, normalized_images[k], target)]
        within == CountWithin(entries, Len(entries))
    IN [global_average |-> global_avg,
        image_count |-> Len(images),
        normalized_images |-> entries,
        images_within_threshold |-> within,
        score |-> Score(within, Len(normalized_images))]

\* the tail of process_all: statistics, score and the successful return
process_all_return ==
    /\ pc = "report"
    /\ result' = [returned |-> TRUE, success |-> TRUE, kind |-> "dict",
                  error |-> "", stats |-> BuildStats,
                  saved_paths |-> saved_paths]
    /\ pc' = "done"
    /\ UNCHANGED <<reports, archive, entry, target_intensity, images, image_arrays,
                   global_avg, i, normalized, normalized_images, hist,
                   saved_paths, disk>>

Next ==
    \/ upload_file
    \/ main
    \/ verify_normalized_images
    \/ extract_images
    \/ extract_images_error
    \/ load_images
    \/ calculate_global_average
    \/ normalize_images
    \/ linear_scale
    \/ fine_adjustment
    \/ secondary_adjustment
    \/ save_normalized_images
    \/ save_error
    \/ process_all_return

Spec == Init /\ [][Next]_vars

\* ------------------------------------------------------------ properties
Finished(k) == k <= Len(normalized_images)
ExplicitValidTarget == ~IsNone(target_intensity) /\ InRange(target_intensity)
Samples(buf) == {buf[k] : k \in 1..Len(buf)}

\* C1: every image gets at most three stages, in the order linear scale,
\* additive adjustment, secondary adjustment; the additive stage ran only
\* where the stage-1 mean is more than 1.0 from the target, the secondary
\* stage only where the additive stage ran and left the mean more than 1.0
\* from the target; after the secondary stage the image is finished, within
\* tolerance or not.
C1_StageOrder ==
    \A k \in 1..Len(hist) :
       LET h == hist[k] IN
       /\ h.stages \in {<<"scale">>, <<"scale", "adjust">>,
                        <<"scale", "adjust", "secondary">>}
       /\ Len(h.stages) >= 2 => DiffGt1(h.new_avg, h.target)
       /\ Len(h.stages) = 3 => DiffGt1(h.final_avg, h.target)
       /\ Len(h.stages) = 3 => Finished(k)
       /\ ~Finished(k) => k = Len(hist) /\ pc \in {"adjust", "secondary"}

\* an image went through all three stages and ended outside the tolerance,
\* and another (or the same run's) image stopped after the additive stage
C1_Witness ==
    /\ pc = "done"
    /\ \E k \in 1..Len(hist) :
          /\ Len(hist[k].stages) = 3
          /\ DiffGt1(Mean(normalized_images[k]), hist[k].target)
    /\ \E k \in 1..Len(hist) : Len(hist[k].stages) = 2

\* C2: with a target in [0, 255] no stage divides by a zero mean: stage 1
\* uses factor 1.0 for a zero-mean buffer, and the secondary stage never
\* computes target / 0.
C2_NoZeroDivision ==
    \A k \in 1..Len(hist) :
       LET h == hist[k] IN
       InRange(h.target) =>
          /\ ~h.div0
          /\ h.scaling_factor.d > 0
          /\ h.current_avg.n = 0 => h.scaling_factor = One
          /\ Len(h.stages) = 3 =>
                (IF h.final_avg.n = 0 THEN h.sec_factor = One
                 ELSE h.sec_factor.d > 0)

\* an all-zero buffer was normalised against a positive target in range and
\* another image of the run went through the secondary stage
C2_Witness ==
    /\ pc = "done"
    /\ \E k \in 1..Len(hist) :
          /\ hist[k].current_avg.n = 0
          /\ hist[k].target.n > 0
          /\ InRange(hist[k].target)
          /\ Len(hist[k].stages) >= 2
    /\ \E k \in 1..Len(hist) : Len(hist[k].stages) = 3

\* C3: an image whose mean is within 1.0 of a target in [0, 255] gets
\* exactly one stage, and its stage-1 mean is within 1.0 of the target.
C3_NearTargetOneStage ==
    \A k \in 1..Len(hist) :
       LET h == hist[k] IN
       (InRange(h.target) /\ ~DiffGt1(h.current_avg, h.target)) =>
          /\ ~DiffGt1(h.new_avg, h.target)
          /\ h.stages = <<"scale">>
          /\ Finished(k)

\* an image with a mean within 1.0 of the target, not equal to it, whose
\* samples stage 1 changed
C3_Witness ==
    \E k \in 1..Len(hist) :
       /\ InRange(hist[k].target)
       /\ ~DiffGt1(hist[k].current_avg, hist[k].target)
       /\ ~RatEq(hist[k].current_avg, hist[k].target)
       /\ Finished(k)
       /\ normalized_images[k] # image_arrays[k]

\* C4: with an explicit target in [0, 255] every sample of every corrected
\* buffer, whichever stage produced it, and of every saved file is an
\* integer in [0, 255].
C4_SamplesInRange ==
    ExplicitValidTarget =>
       /\ Samples(normalized) \subseteq 0..255
       /\ \A k \in 1..Len(normalized_images) :
             Samples(normalized_images[k]) \subseteq 0..255
       /\ \A k \in DOMAIN disk : Samples(disk[k]) \subseteq 0..255

\* a buffer saved after the secondary stage that was clipped at 255, and a
\* buffer of the same run that stopped earlier
C4_Witness ==
    /\ ExplicitValidTarget
    /\ pc = "done"
    /\ \E k \in 1..Len(hist) :
          /\ Len(hist[k].stages) = 3
          /\ 255 \in Samples(disk[k])
          /\ Samples(disk[k]) # {255}
    /\ \E k \in 1..Len(hist) : Len(hist[k].stages) < 3

\* C5: in every report images_within_threshold is the number of entries
\* with within_threshold, score = 10 * images_within_threshold /
\* image_count, 0 <= score <= 10, score = 0 exactly when no image is within
\* threshold or there is no image, score = 10 exactly when every image is.
C5_Score ==
    result.success =>
       LET st == result.stats
           entries == st.normalized_images
           passed == {k \in 1..Len(entries) : entries[k].within_threshold}
       IN /\ st.images_within_threshold = Cardinality(passed)
          /\ st.score.d > 0
          /\ st.score.n * st.image_count
                = 10 * st.images_within_threshold * st.score.d
          /\ 0 <= st.score.n /\ st.score.n <= 10 * st.score.d
          /\ st.score.n = 0
                <=> (st.images_within_threshold = 0 \/ st.image_count = 0)
          /\ st.score.n = 10 * st.score.d
                <=> (st.image_count > 0 /\ Cardinality(passed) = Len(entries))

\* a report in which one image of two passed: score 5
C5_Witness ==
    /\ result.success
    /\ result.stats.image_count = 2
    /\ result.stats.images_within_threshold = 1
    /\ RatEq(result.stats.score, [n |-> 5, d |-> 1])

\* the archive's images and their pooled mean
SourceImages == PngEntries(archive, 1)
PooledMean ==
    Mean(Concatenate([k \in 1..Len(SourceImages) |-> SourceImages[k].img]))
TargetOfRun == IF ~IsNone(target_intensity) THEN target_intensity
               ELSE PooledMean

\* C6 as claimed: the report's global_average is the target every image was
\* normalised toward.
C6_ReportsEffectiveTarget ==
    result.success =>
       \A k \in 1..Len(hist) :
          RatEq(result.stats.global_average, hist[k].target)

\* C6 as amended: the report's global_average is the pooled mean of the
\* batch, with or without an explicit target; every image is normalised
\* toward, and every difference_from_target measured against, the explicit
\* target when one is supplied and the pooled mean otherwise.
C6_ReportsGlobalAverage ==
    result.success =>
       LET st == result.stats IN
       /\ RatEq(st.global_average, PooledMean)
       /\ Len(hist) = Len(st.normalized_images)
       /\ \A k \in 1..Len(hist) :
             /\ RatEq(hist[k].target, TargetOfRun)
             /\ RatEq(st.normalized_images[k].difference_from_target,
                      RatAbsDiff(st.normalized_images[k].average_intensity,
                                 TargetOfRun))

\* a report of a run with an explicit target that is not the pooled mean
C6_Witness ==
    /\ result.success
    /\ ~IsNone(target_intensity)
    /\ ~RatEq(result.stats.global_average, target_intensity)
    /\ \E k \in 1..Len(hist) : Len(hist[k].stages) = 3

ArchiveErrors ==
    {"Error processing ZIP file: No PNG images found in the ZIP file",
     "Error extracting images"}

\* C7 as claimed: an explicit target with a batch of no images returns a
\* report with image_count 0, score 0 and no entries.
C7_EmptyBatchReport ==
    (result.returned /\ ~IsNone(target_intensity) /\ SourceImages = <<>>) =>
       /\ result.success
       /\ result.stats.image_count = 0
       /\ result.stats.score.n = 0
       /\ result.stats.normalized_images = <<>>

\* C7 as amended: a batch of no images fails in extract_images with or
\* without an explicit target: the run never gets past extraction, the
\* global mean is not computed, process_all returns failure with the
\* extraction error and no saved paths, and every report has an image.
C7_EmptyBatchFails ==
    /\ (SourceImages = <<>> /\ pc \notin {"idle", "redirected", "exit1"}) =>
          /\ pc \in {"extract", "failed"}
          /\ IsNone(global_avg)
          /\ result.returned =>
                /\ ~result.success
                /\ result.kind = "str"
                /\ result.error \in ArchiveErrors
                /\ result.saved_paths = <<>>
    /\ result.success => result.stats.image_count >= 1

\* the run with an explicit target in range on an archive that holds an
\* entry, none of them a PNG, has failed with the no-images error
C7_Witness ==
    /\ pc = "failed"
    /\ ExplicitValidTarget
    /\ archive # <<>>
    /\ SourceImages = <<>>
    /\ result.error
         = "Error processing ZIP file: No PNG images found in the ZIP file"

\* C8: with an explicit target outside [0, 255] no image is extracted,
\* normalised or saved, whichever front end constructed the normaliser.
C8_InvalidTargetRejected ==
    (~IsNone(target_intensity) /\ ~InRange(target_intensity)) =>
       /\ images = <<>>
       /\ normalized_images = <<>>
       /\ DOMAIN disk = {}

\* what process_all has returned when it failed, and when it fails
C9_FailureState ==
    /\ pc = "failed" <=> (result.returned /\ ~result.success)
    /\ (result.returned /\ ~result.success) =>
          /\ result.kind = "str"
          /\ result.error # ""
          /\ result.saved_paths = <<>>
          /\ result.stats = NoStats
    /\ result.success => (pc = "done" /\ result.kind = "dict")
    /\ (SourceImages = <<>> /\ IsNone(target_intensity) /\ result.returned)
          => ~result.success

\* C9: a failed run returns success = False, an error message and no saved
\* paths, never statistics; a run with no images and no target fails; and
\* the failure is terminal: no step of the run follows it.
C9_FailureTerminal == []C9_FailureState /\ [][pc # "failed"]_vars

\* saving failed after a file had been written
C9_Witness ==
    /\ pc = "failed"
    /\ saved_paths # <<>>
    /\ DOMAIN disk # {}
    /\ result.saved_paths = <<>>
    /\ result.error = "Error saving image"

\* C10: the k-th image held, the k-th array, the k-th corrected buffer, the
\* k-th saved file (normalized_image{k}.png) and the k-th report entry all
\* belong to the k-th PNG entry of the archive, and a run that finishes has
\* exactly one of each per PNG entry.
C10_InputOrder ==
    /\ Len(images) <= Len(SourceImages)
    /\ \A k \in 1..Len(images) : images[k] = SourceImages[k]
    /\ \A k \in 1..Len(image_arrays) : image_arrays[k] = SourceImages[k].img
    /\ \A k \in 1..Len(normalized_images) :
          /\ hist[k].current_avg = Mean(SourceImages[k].img)
          /\ ~hist[k].div0 =>
                normalized_images[k]
                   = Corrected(SourceImages[k].img, TargetOfRun)
    /\ DOMAIN disk = 1..Len(saved_paths)
    /\ \A k \in 1..Len(saved_paths) :
          saved_paths[k] = k /\ disk[k] = normalized_images[k]
    /\ pc \in {"report", "done"} =>
          /\ Len(normalized_images) = Len(SourceImages)
          /\ Len(saved_paths) = Len(SourceImages)
    /\ result.success =>
          LET st == result.stats IN
          /\ st.image_count = Len(SourceImages)
          /\ Len(st.normalized_images) = Len(SourceImages)
          /\ result.saved_paths = saved_paths
          /\ \A k \in 1..Len(st.normalized_images) :
                /\ st.normalized_images[k].filename = k
                /\ st.normalized_images[k].average_intensity
                      = Mean(normalized_images[k])

\* a finished run on two different images whose corrected buffers differ
C10_Witness ==
    /\ pc = "done"
    /\ Len(SourceImages) = 2
    /\ SourceImages[1].img # SourceImages[2].img
    /\ normalized_images[1] # normalized_images[2]
    /\ disk[1] # disk[2]

\* ------------------------------------------------ uniform single images
\* targets m / TargetDen over the whole of [0, 255]
TargetDen == 2
DenseTargets == {[n |-> m, d |-> TargetDen] : m \in 0..(255 * TargetDen)}

\* the archive holds one PNG whose samples all have the same intensity
UniformArchives ==
    {<<[png |-> TRUE, buf |-> [k \in 1..NPix |-> v]]>> : v \in 0..255}

InitUniform ==
    /\ archive \in UniformArchives
    /\ entry = "none"
    /\ pc = "idle"
    /\ target_intensity = None
    /\ images = <<>>
    /\ image_arrays = <<>>
    /\ global_avg = None
    /\ i = 0
    /\ normalized = <<>>
    /\ normalized_images = <<>>
    /\ hist = <<>>
    /\ saved_paths = <<>>
    /\ disk = <<>>
    /\ result = NoResult
    /\ reports = <<>>

\* test_normalizer.verify_normalized_images with any --target in [0, 255]
verify_with_target ==
    /\ pc = "idle"
    /\ \E raw \in DenseTargets : Construct("direct", raw)

NextUniform == Next \/ verify_with_target

SpecUniform == InitUniform /\ [][NextUniform]_vars

\* the one intensity of a batch of a single uniform image, or -1
UniformLevel ==
    IF Len(SourceImages) = 1
       /\ Cardinality(Samples(SourceImages[1].img)) = 1
    THEN SourceImages[1].img[1]
    ELSE 0 - 1

\* C11: for a batch of one image of uniform intensity v and an explicit
\* target T in [0, 255], stage 1 uses factor T / v when v > 0, the secondary
\* stage never runs, the corrected mean is within 1.0 of T, and the report's
\* score is 10.
C11_UniformImage ==
    (UniformLevel >= 0 /\ ExplicitValidTarget) =>
       /\ pc # "secondary"
       /\ \A k \in 1..Len(hist) :
             /\ Len(hist[k].stages) <= 2
             /\ UniformLevel > 0 =>
                   /\ hist[k].scaling_factor.d > 0
                   /\ hist[k].scaling_factor.n * target_intensity.d
                         * UniformLevel
                      = target_intensity.n * hist[k].scaling_factor.d
             /\ Finished(k) =>
                   ~DiffGt1(Mean(normalized_images[k]), target_intensity)
       /\ result.success =>
             /\ result.stats.images_within_threshold = 1
             /\ RatEq(result.stats.score, [n |-> 10, d |-> 1])

\* the uniform image of intensity 100 with target 150: factor 1.5, score 10
C11_Witness ==
    /\ UniformLevel = 100
    /\ RatEq(target_intensity, [n |-> 150, d |-> 1])
    /\ ~IsNone(target_intensity)
    /\ result.success
    /\ RatEq(hist[1].scaling_factor, [n |-> 3, d |-> 2])
    /\ hist[1].stages = <<"scale">>
    /\ RatEq(result.stats.score, [n |-> 10, d |-> 1])

MaxRuns == 2
ReusePixelValues == {7, 255}
ReuseEntries ==
    {[png |-> TRUE, buf |-> b] : b \in [1..NPix -> ReusePixelValues]}
       \cup {NonPng}
ReuseArchives == UNION {[1..k -> ReuseEntries] : k \in 0..MaxEntries}

InitReuse ==
    /\ archive \in ReuseArchives
    /\ entry = "none"
    /\ pc = "idle"
    /\ target_intensity = None
    /\ images = <<>>
    /\ image_arrays = <<>>
    /\ global_avg = None
    /\ i = 0
    /\ normalized = <<>>
    /\ normalized_images = <<>>
    /\ hist = <<>>
    /\ saved_paths = <<>>
    /\ disk = <<>>
    /\ result = NoResult
    /\ reports = <<>>

\* the caller keeps what process_all returned and calls it again on the
\* same instance: the fields of self and the files stay, the locals are new
process_all_again ==
    /\ pc \in {"done", "failed"}
    /\ Len(reports) < MaxRuns - 1
    /\ reports' = Append(reports, result)
    /\ result' = NoResult
    /\ pc' = "extract"
    /\ i' = 0
    /\ normalized' = <<>>
    /\ normalized_images' = <<>>
    /\ hist' = <<>>
    /\ saved_paths' = <<>>
    /\ UNCHANGED <<archive, entry, target_intensity, images, image_arrays,
                   global_avg, disk>>

NextReuse == Next \/ process_all_again

SpecReuse == InitReuse /\ [][NextReuse]_vars

\* C13: a report of a later run on the same instance has as image_count the
\* number of PNG entries of the archive, and the same image_count,
\* global_average, per-image entries and score as the report of the first
\* run.
C13_RerunSameReport ==
    (result.success /\ reports # <<>> /\ reports[1].success) =>
       LET first == reports[1].stats
           later == result.stats
       IN /\ later.image_count = Len(SourceImages)
          /\ later.image_count = first.image_count
          /\ RatEq(later.global_average, first.global_average)
          /\ later.normalized_images = first.normalized_images
          /\ RatEq(later.score, first.score)
====
